---- MODULE Spec2Model ----
(***************************************************************************)
(* oncekv caching tier: the cache master (cache/master/master.go) and one  *)
(* cache node (cache/node/node.go).                                        *)
(*                                                                         *)
(* URLs are modelled as positive integers ordered as the strings are       *)
(* ordered by sort.StringSlice; 0 stands for the empty string.             *)
(***************************************************************************)
EXTENDS Integers, Sequences, FiniteSets, Bags, TLC

\* ---------------------------------------------------------------- bounds
\* number of cache nodes that may join the master
NumNodes == 2
\* number of sendPeers goroutines of the heartbeat that may be in flight
MaxSenders == 2

\* number of POST /meta handlers of the node that may run at once
MaxMetaReqs == 2
\* number of fetchData loads of the node that may run at once
MaxLoads == 1

\* ------------------------------------------------------------- addresses
Nodes == 1..NumNodes

\* config of node n: its client-facing URL
HTTPAddr(n) == n

\* config of node n: its peer-facing URL (ordered against the httpAddrs)
NodeAddr(n) == 100 - n

HTTPAddrs == {HTTPAddr(n) : n \in Nodes}

NodeOf(h) == CHOOSE n \in Nodes : HTTPAddr(n) = h

\* the database lists the database master may publish (master.Default.Peers)
DBLists == {<<2, 1>>}

\* ------------------------------------------------------------- sequences
SeqRange(s) == {s[i] : i \in 1..Len(s)}

IsSorted(s) == \A i \in 1..Len(s) : \A j \in 1..Len(s) : i < j => s[i] <= s[j]

RECURSIVE InsertSorted(_, _)
InsertSorted(x, s) ==
    IF s = <<>> THEN <<x>>
    ELSE IF x <= Head(s) THEN <<x>> \o s
    ELSE <<Head(s)>> \o InsertSorted(x, Tail(s))

\* sort.StringSlice(s).Sort()
RECURSIVE SortSlice(_)
SortSlice(s) == IF s = <<>> THEN <<>> ELSE InsertSorted(Head(s), SortSlice(Tail(s)))

\* "for k := range p": the keys of a map in an order the runtime picks
RECURSIVE RangeOrder(_)
RangeOrder(S) ==
    IF S = {} THEN <<>>
    ELSE LET k == CHOOSE x \in S : \A y \in S : y <= x
         IN <<k>> \o RangeOrder(S \ {k})

\* ---------------------------------------------------------------- master
VARIABLES
    nodesMap,     \* Master.nodesMap: httpAddr -> nodeAddr
    persisted,    \* the metadata store's value under nodesMapKey (JSON object)
    masterDBs,    \* Master.dbs
    metaUp,       \* whether the metadata store accepts writes
    nodeState,    \* per node process: "down" or "up" (joined, serving /meta)
    joinReply,    \* the reply of the Master.JoinNode call that has just returned
    hbpc,         \* heartbeat loop position: "tick" or "spawn"
    hbPeers,      \* heartbeat's local nodePeers
    senders       \* bag of heartbeat goroutines (sendPeers / removeNode)

mvars == <<nodesMap, persisted, masterDBs, metaUp, nodeState, joinReply,
           hbpc, hbPeers, senders>>

\* ------------------------------------------------------------------ node
VARIABLES
    npc,          \* Node.Start position: "new", "joining" (in join, lock held), "serving"
    peers,        \* Node.peers
    dbs,          \* Node.dbs
    fastDB,       \* Node.fastDB (0: empty)
    ring,         \* the peers handed to node.pool.Set
    nlock,        \* Node.RWMutex: 0 free, -1 write-held by join, r > 0 by handler r
    installed,    \* the (peers, dbs) of the update that last took the write lock
    metas,        \* the POST /meta handlers
    loads         \* the fetchData calls with their race goroutines

nvars == <<npc, peers, dbs, fastDB, ring, nlock, installed, metas, loads>>

vars == <<mvars, nvars>>

\* nodesMap.httpAddrs()
httpAddrs(p) == SortSlice(RangeOrder(DOMAIN p))

\* nodesMap.nodeAddrs()
nodeAddrs(p) ==
    LET keys == RangeOrder(DOMAIN p)
    IN SortSlice([i \in 1..Len(keys) |-> p[keys[i]]])

\* json.Marshal(nodesMap): the object's members
Marshal(p) == {<<h, p[h]>> : h \in DOMAIN p}

\* json.Unmarshal into a nodesMap
Unmarshal(b) ==
    [h \in {e[1] : e \in b} |-> (CHOOSE e \in b : e[1] = h)[2]]

\* fetchNodesMap: absent key (empty roster) or stored object
fetchNodesMap(store) == Unmarshal(store)

\* m.nodesMap[h] = a
MapSet(p, h, a) == [k \in DOMAIN p \cup {h} |-> IF k = h THEN a ELSE p[k]]

\* a delete that leaves the key in the map
MapDeleteNothing(p, h) == p

\* delete(m.nodesMap, h)
MapDelete(p, h) == [k \in DOMAIN p \ {h} |-> p[k]]

\* a Put that is acknowledged without the value being stored
updateNodesMapDropped(p, store, up) == store

\* updateNodesMap: meta.Put of the marshalled roster; the store keeps its
\* old value when the write fails
updateNodesMap(p, store, up) == IF up THEN Marshal(p) ELSE store

\* whether updateNodesMap returns nil
PutOK(up) == up

\* no JoinNode call is returning
NoReply == [node |-> 0, ok |-> FALSE, peers |-> <<>>, dbs |-> <<>>]

MasterInit ==
    /\ persisted = {}
    /\ nodesMap = fetchNodesMap(persisted)
    /\ masterDBs = <<>>
    /\ metaUp = TRUE
    /\ nodeState = [n \in Nodes |-> "down"]
    /\ joinReply = NoReply
    /\ hbpc = "tick"
    /\ hbPeers = <<>>
    /\ senders = EmptyBag

\* a JoinNode that builds its reply by appending the caller to the peers
\* it had before the insert
JoinNodeAppend(n) ==
    /\ nodeState[n] = "down"
    /\ HTTPAddr(n) # 0 /\ NodeAddr(n) # 0
    /\ LET inserted == MapSet(nodesMap, HTTPAddr(n), NodeAddr(n))
       IN /\ nodesMap' = inserted
          /\ persisted' = updateNodesMap(inserted, persisted, metaUp)
          /\ joinReply' =
                 IF PutOK(metaUp)
                 THEN [node |-> n, ok |-> TRUE,
                       peers |-> Append(httpAddrs(nodesMap), HTTPAddr(n)), dbs |-> masterDBs]
                 ELSE [NoReply EXCEPT !.node = n]
    /\ nodeState' = [nodeState EXCEPT ![n] = IF PutOK(metaUp) THEN "up" ELSE "down"]
    /\ UNCHANGED <<masterDBs, metaUp, hbpc, hbPeers, senders>>
    /\ UNCHANGED nvars

\* Master.JoinNode, called by the join() of node n as it starts; on an error
\* the node process exits (Fatal), on success it starts serving
JoinNode(n) ==
    /\ nodeState[n] = "down"
    /\ HTTPAddr(n) # 0 /\ NodeAddr(n) # 0
    /\ LET inserted == MapSet(nodesMap, HTTPAddr(n), NodeAddr(n))
       IN /\ nodesMap' = inserted
          /\ persisted' = updateNodesMap(inserted, persisted, metaUp)
          /\ joinReply' =
                 IF PutOK(metaUp)
                 THEN [node |-> n, ok |-> TRUE,
                       peers |-> httpAddrs(inserted), dbs |-> masterDBs]
                 ELSE [NoReply EXCEPT !.node = n]
    /\ nodeState' = [nodeState EXCEPT ![n] = IF PutOK(metaUp) THEN "up" ELSE "down"]
    /\ UNCHANGED <<masterDBs, metaUp, hbpc, hbPeers, senders>>
    /\ UNCHANGED nvars

\* a node process is shut down
NodeStop(n) ==
    /\ nodeState[n] = "up"
    /\ nodeState' = [nodeState EXCEPT ![n] = "down"]
    /\ joinReply' = NoReply
    /\ UNCHANGED <<nodesMap, persisted, masterDBs, metaUp, hbpc, hbPeers, senders>>
    /\ UNCHANGED nvars

\* the metadata store starts refusing writes, and accepts them again
MetaFail ==
    /\ metaUp
    /\ metaUp' = FALSE
    /\ joinReply' = NoReply
    /\ UNCHANGED <<nodesMap, persisted, masterDBs, nodeState, hbpc, hbPeers, senders>>
    /\ UNCHANGED nvars

MetaRecover ==
    /\ ~metaUp
    /\ metaUp' = TRUE
    /\ joinReply' = NoReply
    /\ UNCHANGED <<nodesMap, persisted, masterDBs, nodeState, hbpc, hbPeers, senders>>
    /\ UNCHANGED nvars

\* heartbeat, first half of a cycle: nodePeers := nodesMap.nodeAddrs()
HeartbeatPeers ==
    /\ hbpc = "tick"
    /\ hbPeers' = nodeAddrs(nodesMap)
    /\ hbpc' = "spawn"
    /\ joinReply' = NoReply
    /\ UNCHANGED <<nodesMap, persisted, masterDBs, metaUp, nodeState, senders>>
    /\ UNCHANGED nvars

\* a heartbeat goroutine "go func(node string)": its node, its position and
\* the err it holds ("sync": from syncDBs, "post": from the POST)
Sender(h, pc, err) == [node |-> h, pc |-> pc, err |-> err]

\* heartbeat, second half: one goroutine per element of nodesMap.httpAddrs()
HeartbeatSpawn ==
    /\ hbpc = "spawn"
    /\ LET targets == httpAddrs(nodesMap)
       IN /\ BagCardinality(senders) + Len(targets) <= MaxSenders
          /\ senders' = senders (+) SetToBag({Sender(h, "send", "nil") : h \in SeqRange(targets)})
    /\ hbpc' = "tick"
    /\ hbPeers' = <<>>
    /\ joinReply' = NoReply
    /\ UNCHANGED <<nodesMap, persisted, masterDBs, metaUp, nodeState>>
    /\ UNCHANGED nvars

Replace(g, g2) == (senders (-) SetToBag({g})) (+) SetToBag({g2})

Finish(g) == senders (-) SetToBag({g})

\* the heartbeat goroutine after sendPeers returned the error of syncDBs:
\* "if err != nil { ...; m.removeNode(node) }"
AfterSyncError(g) == [g EXCEPT !.pc = "remove", !.err = "sync"]

\* sendPeers: syncDBs fails and sendPeers returns its error
SendPeersSyncFail(g) ==
    /\ BagIn(g, senders) /\ g.pc = "send"
    /\ senders' = Replace(g, AfterSyncError(g))
    /\ joinReply' = NoReply
    /\ UNCHANGED <<nodesMap, persisted, masterDBs, metaUp, nodeState, hbpc, hbPeers>>
    /\ UNCHANGED nvars

\* sendPeers: syncDBs replaces m.dbs, the POST is answered 200 (the node's
\* HTTP server is running)
SendPeersOK(g, list) ==
    /\ BagIn(g, senders) /\ g.pc = "send"
    /\ nodeState[NodeOf(g.node)] = "up"
    /\ masterDBs' = list
    /\ senders' = Finish(g)
    /\ joinReply' = NoReply
    /\ UNCHANGED <<nodesMap, persisted, metaUp, nodeState, hbpc, hbPeers>>
    /\ UNCHANGED nvars

\* sendPeers: syncDBs replaces m.dbs, the POST fails (transport error or
\* a status other than 200)
SendPeersPostFail(g, list) ==
    /\ BagIn(g, senders) /\ g.pc = "send"
    /\ masterDBs' = list
    /\ senders' = Replace(g, [g EXCEPT !.pc = "remove", !.err = "post"])
    /\ joinReply' = NoReply
    /\ UNCHANGED <<nodesMap, persisted, metaUp, nodeState, hbpc, hbPeers>>
    /\ UNCHANGED nvars

\* removeNode
RemoveNode(g) ==
    /\ BagIn(g, senders) /\ g.pc = "remove"
    /\ IF g.node \notin DOMAIN nodesMap
       THEN UNCHANGED <<nodesMap, persisted>>
       ELSE LET deleted == MapDelete(nodesMap, g.node)
            IN /\ nodesMap' = deleted
               /\ persisted' = updateNodesMap(deleted, persisted, metaUp)
    /\ senders' = Finish(g)
    /\ joinReply' = NoReply
    /\ UNCHANGED <<masterDBs, metaUp, nodeState, hbpc, hbPeers>>
    /\ UNCHANGED nvars

\* ------------------------------------------------------- node: its state
\* the node modelled in detail
Self == 1

MetaReqs == 1..MaxMetaReqs

Loads == 1..MaxLoads

\* the replies Master.JoinNode gives this node: the sorted httpAddrs of a
\* roster that holds it, and m.dbs as it stands
JoinReplies ==
    {[peers |-> httpAddrs([h \in S |-> NodeAddr(NodeOf(h))]), dbs |-> d] :
        S \in {T \in SUBSET HTTPAddrs : HTTPAddr(Self) \in T},
        d \in {<<>>} \cup DBLists}

\* the peers and dbs arrays of the POST /meta bodies
MetaPeerLists == {<<99>>, <<98, 99>>, <<99, 98>>}

MetaDBLists == {<<2>>, <<2, 1>>}

\* ErrDataNotFound, ErrDatabaseQueryTimeout and the other errors of the loader
ErrDataNotFound == "notfound"

ErrDatabaseQueryTimeout == "timeout"

\* the HTTP outcomes of GET <url>/i/key/<key>: status 0 is a transport
\* error, body 0 an empty body; the bytes a database serves are tagged
\* with its URL
Responses(url) ==
    IF url = 0
    THEN {[status |-> 0, body |-> 0]}
    ELSE {[status |-> 0, body |-> 0], [status |-> 404, body |-> 0],
          [status |-> 200, body |-> url], [status |-> 200, body |-> 0],
          [status |-> 500, body |-> 0]}

\* a find that reports a 404 as a plain failure
findNo404(resp) ==
    IF resp.status = 0 THEN [val |-> 0, err |-> "transport"]
    ELSE IF resp.status = 200
         THEN IF resp.body = 0 THEN [val |-> 0, err |-> "lost"]
              ELSE [val |-> resp.body, err |-> "nil"]
    ELSE [val |-> 0, err |-> "failed"]

\* Node.find, from the response to (bytes, error)
find(resp) ==
    IF resp.status = 0 THEN [val |-> 0, err |-> "transport"]
    ELSE IF resp.status = 404 THEN [val |-> 0, err |-> ErrDataNotFound]
    ELSE IF resp.status = 200
         THEN IF resp.body = 0 THEN [val |-> 0, err |-> "lost"]
              ELSE [val |-> resp.body, err |-> "nil"]
    ELSE [val |-> 0, err |-> "failed"]

\* tryAllDBFind's completeCount: declared, never assigned
completeCount == 0

IdleMeta == [pc |-> "idle", peers |-> <<>>, dbs |-> <<>>, status |-> 0, wrote |-> FALSE]

IdleLoad ==
    [pc |-> "idle", fastFailed |-> FALSE, asked |-> {}, snap |-> <<>>,
     pending |-> {}, got |-> FALSE, fastURL |-> 0, resErr |-> "nil", val |-> 0,
     data |-> "none", tasks |-> {}, result |-> "none", dest |-> -1,
     first |-> <<>>, late |-> FALSE]

NodeInit ==
    /\ npc = "new"
    /\ peers = <<>>
    /\ dbs = <<>>
    /\ fastDB = 0
    /\ ring = <<>>
    /\ nlock = 0
    /\ installed = <<<<>>, <<>>>>
    /\ metas = [r \in MetaReqs |-> IdleMeta]
    /\ loads = [l \in Loads |-> IdleLoad]

Init == MasterInit /\ NodeInit

\* ---------------------------------------------- node: join and POST /meta
\* join: the RPC has returned rp; Lock, pool.Set, node.peers = reply.Peers
NodeJoin(rp) ==
    /\ npc = "new" /\ nlock = 0
    /\ nlock' = -1
    /\ ring' = rp.peers
    /\ peers' = rp.peers
    /\ installed' = <<rp.peers, rp.dbs>>
    /\ npc' = "joining"
    /\ UNCHANGED <<dbs, fastDB, metas, loads>>
    /\ UNCHANGED mvars

\* join: node.dbs = reply.DBs, Unlock; Start goes on to serve
NodeJoinDone ==
    /\ npc = "joining"
    /\ dbs' = installed[2]
    /\ nlock' = 0
    /\ npc' = "serving"
    /\ UNCHANGED <<peers, fastDB, ring, installed, metas, loads>>
    /\ UNCHANGED mvars

\* a handler that keeps the arrays in the order of the body
UnsortedParams(ps, ds) == [peers |-> ps, dbs |-> ds]

\* handleMeta: BindJSON, then both arrays are sorted
SortedParams(ps, ds) == [peers |-> SortSlice(ps), dbs |-> SortSlice(ds)]

\* reflect.DeepEqual of two []string
DeepEqual(s, t) == Len(s) = Len(t) /\ \A i \in 1..Len(s) : s[i] = t[i]

\* handleMeta: a POST /meta with body {peers: ps, dbs: ds} arrives; bind,
\* sort, RLock, compare with the current view, RUnlock
HandleMeta(r, ps, ds) ==
    /\ npc = "serving"
    /\ metas[r].pc \in {"idle", "done"}
    /\ nlock = 0
    /\ LET params == SortedParams(ps, ds)
       IN metas' = [metas EXCEPT ![r] =
              IF DeepEqual(peers, params.peers) /\ DeepEqual(dbs, params.dbs)
              THEN [IdleMeta EXCEPT !.pc = "done", !.peers = params.peers,
                                    !.dbs = params.dbs, !.status = 200]
              ELSE [IdleMeta EXCEPT !.pc = "write", !.peers = params.peers,
                                    !.dbs = params.dbs]]
    /\ UNCHANGED <<npc, peers, dbs, fastDB, ring, nlock, installed, loads>>
    /\ UNCHANGED mvars

\* handleMeta: a POST /meta whose body is not JSON is answered 400
HandleMetaBadJSON(r) ==
    /\ npc = "serving"
    /\ metas[r].pc \in {"idle", "done"}
    /\ metas' = [metas EXCEPT ![r] = [IdleMeta EXCEPT !.pc = "done", !.status = 400]]
    /\ UNCHANGED <<npc, peers, dbs, fastDB, ring, nlock, installed, loads>>
    /\ UNCHANGED mvars

\* a handler that takes the lock for the first assignment only
MetaWritePeersUnlocked(r) ==
    /\ metas[r].pc = "write"
    /\ nlock = 0
    /\ nlock' = 0
    /\ ring' = metas[r].peers
    /\ peers' = metas[r].peers
    /\ installed' = <<metas[r].peers, metas[r].dbs>>
    /\ metas' = [metas EXCEPT ![r].pc = "unlock"]
    /\ UNCHANGED <<npc, dbs, fastDB, loads>>
    /\ UNCHANGED mvars

\* handleMeta: Lock, pool.Set, node.peers = params.Peers
MetaWritePeers(r) ==
    /\ metas[r].pc = "write"
    /\ nlock = 0
    /\ nlock' = r
    /\ ring' = metas[r].peers
    /\ peers' = metas[r].peers
    /\ installed' = <<metas[r].peers, metas[r].dbs>>
    /\ metas' = [metas EXCEPT ![r].pc = "unlock"]
    /\ UNCHANGED <<npc, dbs, fastDB, loads>>
    /\ UNCHANGED mvars

\* handleMeta: node.dbs = params.DBs, reply 200, Unlock
MetaWriteDBs(r) ==
    /\ metas[r].pc = "unlock"
    /\ dbs' = metas[r].dbs
    /\ nlock' = 0
    /\ metas' = [metas EXCEPT ![r] =
           [IdleMeta EXCEPT !.pc = "done", !.status = 200, !.wrote = TRUE]]
    /\ UNCHANGED <<npc, peers, fastDB, ring, installed, loads>>
    /\ UNCHANGED mvars

\* ------------------------------------------------------ node: the loader
\* fetchData is called for a missing key: "if node.fastDB == """
FetchData(l) ==
    /\ npc = "serving"
    /\ loads[l].pc \in {"idle", "done"}
    /\ loads[l].pending = {} /\ loads[l].tasks = {}
    /\ loads' = [loads EXCEPT ![l] =
           [IdleLoad EXCEPT !.pc = IF fastDB = 0 THEN "race" ELSE "fast"]]
    /\ UNCHANGED <<npc, peers, dbs, fastDB, ring, nlock, installed, metas>>
    /\ UNCHANGED mvars

\* fetchData: node.find(key, node.fastDB) and what follows it
FastFind(l, resp) ==
    /\ loads[l].pc = "fast"
    /\ resp \in Responses(fastDB)
    /\ LET out == find(resp)
           ld == [loads[l] EXCEPT !.asked = {fastDB}]
       IN loads' = [loads EXCEPT ![l] =
              IF out.err = ErrDataNotFound
              THEN [ld EXCEPT !.pc = "done", !.result = ErrDataNotFound]
              ELSE IF out.err # "nil"
              THEN [ld EXCEPT !.pc = "race", !.fastFailed = TRUE,
                              !.tasks = @ \cup {<<"fast", 0>>}]
              ELSE [ld EXCEPT !.pc = "done", !.result = "nil", !.dest = out.val]]
    /\ UNCHANGED <<npc, peers, dbs, fastDB, ring, nlock, installed, metas>>
    /\ UNCHANGED mvars

\* tryAllDBFind: copy node.dbs, start one goroutine per database
TryAllDBFind(l) ==
    /\ loads[l].pc = "race"
    /\ loads' = [loads EXCEPT ![l] =
           IF Len(dbs) = 0
           THEN [@ EXCEPT !.pc = "done", !.result = "nodbs"]
           ELSE [@ EXCEPT !.pc = "select", !.snap = dbs,
                          !.pending = 1..Len(dbs),
                          !.asked = @ \cup SeqRange(dbs)]]
    /\ UNCHANGED <<npc, peers, dbs, fastDB, ring, nlock, installed, metas>>
    /\ UNCHANGED mvars

\* the outcomes that can win a race: "len(val) > 0 || err == ErrDataNotFound"
Qualifies(out) == out.val # 0 \/ out.err = ErrDataNotFound

\* history of a race: first is <<url, bytes, error>> of the first responder
\* with a qualifying outcome to take the lock, late tells that another
\* qualifying outcome came after it
Observed(ld, i, out) ==
    IF ~Qualifies(out) THEN ld
    ELSE IF ld.first = <<>> THEN [ld EXCEPT !.first = <<ld.snap[i], out.val, out.err>>]
    ELSE [ld EXCEPT !.late = TRUE]

\* a responder that elects itself whatever got says
RespondNoGot(l, i, resp) ==
    /\ i \in loads[l].pending
    /\ resp \in Responses(loads[l].snap[i])
    /\ nlock = 0
    /\ LET out == find(resp)
           ld == Observed([loads[l] EXCEPT !.pending = @ \ {i}], i, out)
       IN loads' = [loads EXCEPT ![l] =
              IF Qualifies(out) \/ completeCount = Len(ld.snap)
              THEN [ld EXCEPT !.got = TRUE, !.fastURL = ld.snap[i],
                              !.resErr = out.err, !.val = out.val, !.data = "sending"]
              ELSE ld]
    /\ UNCHANGED <<npc, peers, dbs, fastDB, ring, nlock, installed, metas>>
    /\ UNCHANGED mvars

\* tryAllDBFind, goroutine of snap[i]: find returned, Lock, elect, Unlock
Respond(l, i, resp) ==
    /\ i \in loads[l].pending
    /\ resp \in Responses(loads[l].snap[i])
    /\ nlock = 0
    /\ LET out == find(resp)
           ld == Observed([loads[l] EXCEPT !.pending = @ \ {i}], i, out)
       IN loads' = [loads EXCEPT ![l] =
              IF /\ \/ out.val # 0
                    \/ out.err = ErrDataNotFound
                    \/ completeCount = Len(ld.snap)
                 /\ ~ld.got
              THEN [ld EXCEPT !.got = TRUE, !.fastURL = ld.snap[i],
                              !.resErr = out.err, !.val = out.val, !.data = "sending"]
              ELSE ld]
    /\ UNCHANGED <<npc, peers, dbs, fastDB, ring, nlock, installed, metas>>
    /\ UNCHANGED mvars

\* a loader that promotes the first database of its snapshot
ReceivePromoteHead(l) ==
    /\ loads[l].pc = "select"
    /\ loads[l].data = "sending"
    /\ loads' = [loads EXCEPT ![l] =
           [@ EXCEPT !.pc = "done", !.data = "received", !.dest = loads[l].val,
                     !.result = loads[l].resErr,
                     !.tasks = @ \cup {<<"race", loads[l].snap[1]>>}]]
    /\ UNCHANGED <<npc, peers, dbs, fastDB, ring, nlock, installed, metas>>
    /\ UNCHANGED mvars

\* tryAllDBFind: "case value := <-data"
Receive(l) ==
    /\ loads[l].pc = "select"
    /\ loads[l].data = "sending"
    /\ loads' = [loads EXCEPT ![l] =
           [@ EXCEPT !.pc = "done", !.data = "received", !.dest = loads[l].val,
                     !.result = loads[l].resErr,
                     !.tasks = IF loads[l].val # 0 \/ loads[l].resErr = ErrDataNotFound
                               THEN @ \cup {<<"race", loads[l].fastURL>>}
                               ELSE @]]
    /\ UNCHANGED <<npc, peers, dbs, fastDB, ring, nlock, installed, metas>>
    /\ UNCHANGED mvars

\* a loader that returns on the deadline without clearing fastDB
TimeoutNoClear(l) ==
    /\ loads[l].pc = "select"
    /\ loads' = [loads EXCEPT ![l] =
           [@ EXCEPT !.pc = "done", !.result = ErrDatabaseQueryTimeout]]
    /\ UNCHANGED <<npc, peers, dbs, fastDB, ring, nlock, installed, metas>>
    /\ UNCHANGED mvars

\* tryAllDBFind: "case <-time.After(dbQueryTimeout)"
Timeout(l) ==
    /\ loads[l].pc = "select"
    /\ loads' = [loads EXCEPT ![l] =
           [@ EXCEPT !.pc = "done", !.result = ErrDatabaseQueryTimeout,
                     !.tasks = @ \cup {<<"timeout", 0>>}]]
    /\ UNCHANGED <<npc, peers, dbs, fastDB, ring, nlock, installed, metas>>
    /\ UNCHANGED mvars

\* a goroutine "go node.setFastDB(db)" of load l runs
SetFastDB(l, t) ==
    /\ t \in loads[l].tasks
    /\ nlock = 0
    /\ fastDB' = t[2]
    /\ loads' = [loads EXCEPT ![l].tasks = @ \ {t}]
    /\ UNCHANGED <<npc, peers, dbs, ring, nlock, installed, metas>>
    /\ UNCHANGED mvars

NodeNext ==
    \/ \E rp \in JoinReplies : NodeJoin(rp)
    \/ NodeJoinDone
    \/ \E r \in MetaReqs : \E ps \in MetaPeerLists : \E ds \in MetaDBLists : HandleMeta(r, ps, ds)
    \/ \E r \in MetaReqs : HandleMetaBadJSON(r)
    \/ \E r \in MetaReqs : MetaWritePeers(r)
    \/ \E r \in MetaReqs : MetaWriteDBs(r)
    \/ \E l \in Loads : FetchData(l)
    \/ \E l \in Loads : \E resp \in Responses(fastDB) : FastFind(l, resp)
    \/ \E l \in Loads : TryAllDBFind(l)
    \/ \E l \in Loads : \E i \in loads[l].pending :
           \E resp \in Responses(loads[l].snap[i]) : Respond(l, i, resp)
    \/ \E l \in Loads : Receive(l)
    \/ \E l \in Loads : Timeout(l)
    \/ \E l \in Loads : \E t \in loads[l].tasks : SetFastDB(l, t)

NodeSpec == Init /\ [][NodeNext]_vars

\* the node with its POST /meta handlers and no load
MetaNext ==
    \/ \E rp \in JoinReplies : NodeJoin(rp)
    \/ NodeJoinDone
    \/ \E r \in MetaReqs : \E ps \in MetaPeerLists : \E ds \in MetaDBLists : HandleMeta(r, ps, ds)
    \/ \E r \in MetaReqs : HandleMetaBadJSON(r)
    \/ \E r \in MetaReqs : MetaWritePeers(r)
    \/ \E r \in MetaReqs : MetaWriteDBs(r)

MetaSpec == Init /\ [][MetaNext]_vars

\* the node with its loads and no POST /meta
LoadNext ==
    \/ \E rp \in JoinReplies : NodeJoin(rp)
    \/ NodeJoinDone
    \/ \E l \in Loads : FetchData(l)
    \/ \E l \in Loads : \E resp \in Responses(fastDB) : FastFind(l, resp)
    \/ \E l \in Loads : TryAllDBFind(l)
    \/ \E l \in Loads : \E i \in loads[l].pending :
           \E resp \in Responses(loads[l].snap[i]) : Respond(l, i, resp)
    \/ \E l \in Loads : Receive(l)
    \/ \E l \in Loads : Timeout(l)
    \/ \E l \in Loads : \E t \in loads[l].tasks : SetFastDB(l, t)

LoadSpec == Init /\ [][LoadNext]_vars

MasterNext ==
    \/ \E n \in Nodes : JoinNode(n)
    \/ \E n \in Nodes : NodeStop(n)
    \/ MetaFail
    \/ MetaRecover
    \/ HeartbeatPeers
    \/ HeartbeatSpawn
    \/ \E g \in BagToSet(senders) : SendPeersSyncFail(g)
    \/ \E g \in BagToSet(senders) : \E list \in DBLists : SendPeersOK(g, list)
    \/ \E g \in BagToSet(senders) : \E list \in DBLists : SendPeersPostFail(g, list)
    \/ \E g \in BagToSet(senders) : RemoveNode(g)

MasterSpec == Init /\ [][MasterNext]_vars

\* every heartbeat goroutine that has to call removeNode is scheduled and
\* gets the master lock
SenderRecords ==
    {Sender(h, pc, err) : h \in HTTPAddrs, pc \in {"send", "remove"}, err \in {"nil", "sync", "post"}}

\* the master with a metadata store that accepts every write
ReliableStoreNext ==
    \/ \E n \in Nodes : JoinNode(n)
    \/ \E n \in Nodes : NodeStop(n)
    \/ HeartbeatPeers
    \/ HeartbeatSpawn
    \/ \E g \in BagToSet(senders) : SendPeersSyncFail(g)
    \/ \E g \in BagToSet(senders) : \E list \in DBLists : SendPeersOK(g, list)
    \/ \E g \in BagToSet(senders) : \E list \in DBLists : SendPeersPostFail(g, list)
    \/ \E g \in BagToSet(senders) : RemoveNode(g)

MasterFairSpec ==
    /\ Init /\ [][ReliableStoreNext]_vars
    /\ \A g \in SenderRecords : WF_vars(RemoveNode(g))

\* ---------------------------------------------------------------- claims
InPersisted(h) == \E e \in persisted : e[1] = h

\* C1: when a JoinNode(httpAddr, nodeAddr) returns success, the persisted
\* roster holds httpAddr -> nodeAddr, whatever JoinNode calls and heartbeat
\* removals of other nodes ran before it.
C1_RosterDurability ==
    joinReply.ok
        => <<HTTPAddr(joinReply.node), NodeAddr(joinReply.node)>> \in persisted

\* a JoinNode returns success after another node, which joined earlier and
\* is still running, was removed by the heartbeat
C1_Witness ==
    \E m \in Nodes \ {joinReply.node} :
        /\ joinReply.ok
        /\ <<HTTPAddr(joinReply.node), NodeAddr(joinReply.node)>> \in persisted
        /\ nodeState[m] = "up" /\ HTTPAddr(m) \notin DOMAIN nodesMap
        /\ ~InPersisted(HTTPAddr(m))

\* C2: a JoinNode whose metadata-store write fails returns an error and
\* leaves the in-memory roster as it was before the call.
C2_JoinAtomicWithPersistence ==
    [][\A n \in Nodes : (JoinNode(n) /\ ~joinReply'.ok) => nodesMap' = nodesMap]_vars

\* C3: a removeNode that runs because syncDBs failed in sendPeers removes
\* nothing from the roster, in memory or persisted.
C3_RefreshFailureEvictsNobody ==
    [][\A g \in BagToSet(senders) :
          (RemoveNode(g) /\ g.err = "sync") => (nodesMap' = nodesMap /\ persisted' = persisted)]_vars

PostFailed(h) == BagIn(Sender(h, "remove", "post"), senders)

\* C4: while metadata-store writes succeed, a roster member whose heartbeat
\* POST failed is eventually absent from the in-memory and from the
\* persisted roster (by the removeNode of that same goroutine), and every
\* heartbeat cycle computes its peers list without the nodes the roster lacks.
C4_HeartbeatEviction ==
    /\ \A h \in HTTPAddrs :
           PostFailed(h) ~> (h \notin DOMAIN nodesMap /\ ~InPersisted(h))
    /\ [][HeartbeatPeers =>
            \A n \in Nodes :
                HTTPAddr(n) \notin DOMAIN nodesMap => NodeAddr(n) \notin SeqRange(hbPeers')]_vars

\* a heartbeat POST to a roster member has just failed
C4_Witness ==
    \E h \in HTTPAddrs :
        PostFailed(h) /\ h \in DOMAIN nodesMap /\ InPersisted(h) /\ metaUp

\* C5: a removeNode that follows a failed heartbeat POST and runs while the
\* metadata store accepts writes leaves the node out of the persisted
\* roster (the eviction that failed to persist is retried).
C5_EvictionRetried ==
    [][\A g \in BagToSet(senders) :
          (RemoveNode(g) /\ g.err = "post" /\ metaUp) => ~InPersisted(g.node)']_vars

\* C6: a successful JoinNode of a node whose entry is already in the roster
\* and persisted (the state a first successful call leaves) changes neither
\* the in-memory nor the persisted roster, and replies the same peers list,
\* holding the node's httpAddr once.
C6_JoinIdempotent ==
    [][\A n \in Nodes :
          ( /\ JoinNode(n) /\ joinReply'.ok
            /\ HTTPAddr(n) \in DOMAIN nodesMap
            /\ nodesMap[HTTPAddr(n)] = NodeAddr(n)
            /\ persisted = Marshal(nodesMap) )
          => /\ nodesMap' = nodesMap
             /\ persisted' = persisted
             /\ Cardinality(DOMAIN nodesMap') = Cardinality(DOMAIN nodesMap)
             /\ joinReply'.peers = httpAddrs(nodesMap)
             /\ Len(SelectSeq(joinReply'.peers, LAMBDA x : x = HTTPAddr(n))) = 1]_vars

\* a node whose first JoinNode succeeded (its entry is in the roster and
\* persisted, next to another member's) has been stopped and is about to
\* call JoinNode again while the metadata store accepts writes
C6_Witness ==
    \E n \in Nodes :
        /\ nodeState[n] = "down" /\ metaUp
        /\ HTTPAddr(n) \in DOMAIN nodesMap
        /\ nodesMap[HTTPAddr(n)] = NodeAddr(n)
        /\ persisted = Marshal(nodesMap)
        /\ Cardinality(DOMAIN nodesMap) > 1

\* C7: whenever the node lock is free, so that a reader can take it, the
\* pair (peers, dbs) is the pair one single update installed: the join
\* reply or one POST /meta body, never peers of one and dbs of another.
C7_PeerViewAtomic == nlock = 0 => <<peers, dbs>> = installed

\* a heartbeat body has been installed over the join reply and a second
\* body that differs from the view waits for the lock
C7_Witness ==
    /\ nlock = 0
    /\ \E r \in MetaReqs : metas[r].pc = "done" /\ metas[r].wrote
    /\ \E r \in MetaReqs :
           metas[r].pc = "write" /\ <<metas[r].peers, metas[r].dbs>> # <<peers, dbs>>
    /\ peers \in {SortSlice(ps) : ps \in MetaPeerLists}

\* C8: a POST /meta whose peers and dbs are, in any order, the lists the
\* node holds is answered 200 at once: no write is started, and peers,
\* dbs, fastDB, the ring and the lock are left as they were.
C8_MetaIdempotent ==
    [][\A r \in MetaReqs : \A ps \in MetaPeerLists : \A ds \in MetaDBLists :
          (HandleMeta(r, ps, ds) /\ SortSlice(ps) = peers /\ SortSlice(ds) = dbs)
              => /\ metas'[r].pc = "done"
                 /\ metas'[r].status = 200
                 /\ ~metas'[r].wrote
                 /\ UNCHANGED <<peers, dbs, fastDB, ring, nlock>>]_vars

\* a repeated body was answered 200 without a write; the stored dbs <<1, 2>>
\* is never the order of a body, so the repeat came in another order
C8_Witness ==
    \E r \in MetaReqs :
        /\ metas[r].pc = "done" /\ metas[r].status = 200 /\ ~metas[r].wrote
        /\ metas[r].peers = peers /\ metas[r].dbs = dbs
        /\ peers = <<98, 99>> /\ dbs = <<1, 2>>
        /\ ring = peers /\ nlock = 0

\* C9: with fastDB set, a 200 with a body makes the load return these
\* bytes and a 404 makes it return DataNotFound; either way the load asks
\* no other database and starts no update of fastDB.
C9_FastPathFrame ==
    [][\A l \in Loads : \A resp \in Responses(fastDB) :
          (FastFind(l, resp) /\ fastDB # 0 /\ resp.status \in {200, 404}
             /\ (resp.status = 200 => resp.body # 0))
              => /\ loads'[l].pc = "done"
                 /\ loads'[l].result = IF resp.status = 404 THEN ErrDataNotFound ELSE "nil"
                 /\ loads'[l].dest = IF resp.status = 404 THEN -1 ELSE resp.body
                 /\ loads'[l].asked = {fastDB}
                 /\ loads'[l].pending = {} /\ loads'[l].tasks = {}
                 /\ fastDB' = fastDB]_vars

\* a load served by the fast path alone
C9_Witness ==
    \E l \in Loads :
        /\ loads[l].pc = "done" /\ loads[l].result = "nil"
        /\ fastDB # 0 /\ loads[l].dest = fastDB
        /\ loads[l].asked = {fastDB} /\ loads[l].snap = <<>>
        /\ loads[l].tasks = {} /\ ~loads[l].fastFailed

\* C10: a load whose fast-path request failed and whose race was won by a
\* database with bytes or DataNotFound leaves, once its setFastDB
\* goroutines have all run, fastDB equal to the winner.
C10_Relatch ==
    \A l \in Loads :
        (/\ loads[l].pc = "done" /\ loads[l].fastFailed
         /\ loads[l].data = "received"
         /\ loads[l].dest > 0 \/ loads[l].result = ErrDataNotFound
         /\ loads[l].tasks = {})
            => fastDB = loads[l].fastURL

\* C11: in a race the elected responder is the first one, in the order
\* of taking the lock, whose outcome is bytes or DataNotFound; what the
\* loader receives and returns is that responder's bytes and error, the
\* URL it promotes is that responder's URL, and later outcomes change
\* none of them.
C11_WinnerElection ==
    \A l \in Loads :
        /\ loads[l].got <=> loads[l].first # <<>>
        /\ loads[l].got =>
               <<loads[l].fastURL, loads[l].val, loads[l].resErr>> = loads[l].first
        /\ loads[l].data = "received" =>
               /\ loads[l].dest = loads[l].first[2]
               /\ loads[l].result = loads[l].first[3]
        /\ \A t \in loads[l].tasks : t[1] = "race" => t[2] = loads[l].first[1]

\* the loader has received the winner's result after a second database
\* answered with a qualifying outcome too
C11_Witness ==
    \E l \in Loads :
        /\ loads[l].data = "received" /\ loads[l].late
        /\ loads[l].pending = {}
        /\ <<"race", loads[l].first[1]>> \in loads[l].tasks

\* C12: once every database of a race has answered with an error other
\* than DataNotFound while the loader still waits, the last completion
\* has latched in as the winner and its error is on its way to the loader.
C12_AllFailLatches ==
    \A l \in Loads :
        (loads[l].pc = "select" /\ loads[l].pending = {} /\ loads[l].first = <<>>)
            => (loads[l].got /\ loads[l].data = "sending")

\* C13: when the deadline fires before a result is received the load
\* returns DatabaseQueryTimeout, nothing is written to the destination,
\* and the load schedules a clear of fastDB: fastDB is empty right after
\* that clear has run, and, when no other load has run beside this one,
\* once all the updates of the load have run.
C13_RaceTimeout ==
    /\ [](\A l \in Loads :
            loads[l].result = ErrDatabaseQueryTimeout =>
                /\ loads[l].pc = "done" /\ loads[l].dest = -1
                /\ (loads[l].tasks = {} /\ \A l2 \in Loads \ {l} : loads[l2].pc = "idle")
                       => fastDB = 0)
    /\ [][\A l \in Loads :
            /\ Timeout(l) =>
                   /\ loads'[l].result = ErrDatabaseQueryTimeout
                   /\ loads'[l].tasks = loads[l].tasks \cup {<<"timeout", 0>>}
            /\ \A t \in loads[l].tasks :
                   (SetFastDB(l, t) /\ t[1] = "timeout") => fastDB' = 0]_vars

\* a load that timed out after its fast-path request failed; the clear of
\* the timeout has run and emptied fastDB, the clear of the fast path has not
C13_Witness ==
    \E l \in Loads :
        /\ loads[l].pc = "done" /\ loads[l].result = ErrDatabaseQueryTimeout
        /\ loads[l].dest = -1 /\ loads[l].fastFailed
        /\ loads[l].tasks = {<<"fast", 0>>}
        /\ fastDB = 0

\* C14: fastDB starts empty and every step that changes it either empties
\* it or sets it to the URL of the responder that a race of this node
\* elected with bytes or DataNotFound: a URL whose outcome was an error,
\* or that did not win, is never latched.
C14_FastDBProvenance ==
    /\ [](npc # "serving" => fastDB = 0)
    /\ [][fastDB' # fastDB =>
            \/ fastDB' = 0
            \/ \E l \in Loads :
                   /\ loads[l].got /\ loads[l].data = "received"
                   /\ loads[l].first # <<>> /\ loads[l].first[1] = fastDB'
                   /\ Qualifies([val |-> loads[l].first[2], err |-> loads[l].first[3]])]_vars

\* fastDB names the winner of a race in which the other database
\* answered too, with an error
C14_Witness ==
    \E l \in Loads :
        /\ fastDB # 0 /\ loads[l].first # <<>> /\ loads[l].first[1] = fastDB
        /\ Len(loads[l].snap) > 1 /\ loads[l].pending = {} /\ ~loads[l].late
        /\ loads[l].tasks = {} /\ loads[l].data = "received"

\* C15: no goroutine of a race is left blocked: whenever the goroutine
\* that publishes the winner's value is waiting to send on data, the
\* loader is still at its select and can receive it.
C15_NoTaskLeak ==
    \A l \in Loads : loads[l].data = "sending" => loads[l].pc = "select"

\* C16: the loader reads fastDB and dbs with the node lock held, so none
\* of its reads happens while a membership update holds the write lock
\* between its two assignments.
C16_LoaderReadsUnderLock ==
    [][\A l \in Loads :
          (\/ FetchData(l)
           \/ \E resp \in Responses(fastDB) : FastFind(l, resp)
           \/ TryAllDBFind(l)) => nlock = 0]_vars

\* C17: the nodes a heartbeat cycle POSTs to and the peers payload it
\* sends are taken from one and the same roster: when the cycle starts
\* its goroutines, the payload it computed is the sorted nodeAddrs of the
\* roster the targets are read from.
C17_HeartbeatSnapshot ==
    [][HeartbeatSpawn => hbPeers = nodeAddrs(nodesMap)]_vars

\* C18: once the node has joined, and whenever no update is in the middle
\* of its two assignments, peers is a sorted sequence of peer-facing
\* nodeAddrs, the ring holds the same peers, and dbs is sorted.
C18_PeerViewContent ==
    (npc = "serving" /\ nlock = 0) =>
        /\ IsSorted(peers)
        /\ SeqRange(peers) \subseteq {NodeAddr(n) : n \in Nodes}
        /\ ring = peers
        /\ IsSorted(dbs)

\* C19: a removeNode that runs on account of a POST that failed before
\* the node's latest successful JoinNode evicts nobody: when the JoinNode
\* of a node has just returned success, a removeNode already pending for
\* that node leaves it in the roster, in memory and in the store.
C19_StaleFailureEvictsNobody ==
    [][\A g \in BagToSet(senders) :
          (/\ RemoveNode(g) /\ g.err = "post"
           /\ joinReply.ok /\ HTTPAddr(joinReply.node) = g.node)
              => (nodesMap' = nodesMap /\ persisted' = persisted)]_vars

\* C20: whenever no update is in the middle of its two assignments, a
\* non-empty fastDB is one of the databases of the node's dbs.
C20_FastDBWithinDBs ==
    nlock = 0 => (fastDB = 0 \/ fastDB \in SeqRange(dbs))

====
